---- MODULE Spec2Model ----
(***************************************************************************)
(* Model of zimage.py: convert_lora (the q/k/v -> qkv LoRA conversion of   *)
(* one file) and LoRAConverterGUI.run_batch (the batch loop around it).    *)
(*                                                                         *)
(* A key is the sequence of its '.'-separated path segments, so            *)
(* "L.attention.to_q.alpha" is <<"L", "attention", "to_q", "alpha">>.      *)
(* A tensor is [id, shape, data]: id is the identity of the Python object  *)
(* (the position of the tensor in the loaded file, 0 for a tensor the      *)
(* conversion allocates), shape its sizes and data its elements in         *)
(* row-major order.  A path is the sequence of its characters.             *)
(***************************************************************************)
EXTENDS Integers, Sequences, FiniteSets, TLC

VARIABLES pc, input_path, lora_dict, processed, layer_groups, gi,
          output_dict, converted_count, loaded, saved, result,
          bpc, in_is_dir, files, fi, skip_existing, existing, attempts, blog

cvars == <<pc, input_path, lora_dict, processed, layer_groups, gi,
           output_dict, converted_count, loaded, saved, result>>
bvars == <<bpc, in_is_dir, files, fi, skip_existing, existing, attempts, blog>>
vars == <<cvars, bvars>>

(***************************************************************************)
(* Bounds of the model.                                                    *)
(***************************************************************************)
\* sizes h, r of the low-rank factors range over 1..MaxDim
MaxDim == 2
\* scalar alpha values range over 0..MaxAlpha
MaxAlpha == 2
\* a loaded file differs from the plain one-group file in at most MaxDev ways
MaxDev == 2
\* a batch lists at most MaxFiles files
MaxFiles == 3

(***************************************************************************)
(* Sequences and ordered maps (Python dicts keep insertion order).         *)
(***************************************************************************)
Reverse(s) == [i \in 1..Len(s) |-> s[Len(s) + 1 - i]]

EndsWith(s, suffix) ==
    /\ Len(s) >= Len(suffix)
    /\ SubSeq(s, Len(s) - Len(suffix) + 1, Len(s)) = suffix

\* d.get(key): entries of an ordered map are [key, value] records
HasKey(d, key) == \E i \in 1..Len(d) : d[i].key = key
Get(d, key) == d[CHOOSE i \in 1..Len(d) : d[i].key = key].value

None == [id |-> -1, shape |-> <<>>, data |-> <<>>]
GetOrNone(d, key) == IF HasKey(d, key) THEN Get(d, key) ELSE None

\* output_dict[key] = value on a map kept as a function from keys
Put(out, key, value) ==
    [k \in (DOMAIN out) \cup {key} |-> IF k = key THEN value ELSE out[k]]

(***************************************************************************)
(* Substring tests on keys, lines 49-63.  The segments of this model are   *)
(* whole words, so a test for a substring that starts or ends with '.' is  *)
(* a test on whole segments that are not the first or not the last.        *)
(***************************************************************************)
\* segments that start with "to_"
ToSegments == {"to_q", "to_k", "to_v", "to_out", "to_gate"}
QkvSegments == {"to_q", "to_k", "to_v"}
LoraSegments == {"lora_A", "lora_B"}

\* '.attention.to_out.0.' in key
HasAttentionOut(key) ==
    \E i \in 2..Len(key) :
        /\ i + 3 <= Len(key)
        /\ key[i] = "attention" /\ key[i+1] = "to_out" /\ key[i+2] = "0"

\* '.attention.to_' in key
HasAttentionTo(key) ==
    \E i \in 2..Len(key) :
        /\ i + 1 <= Len(key)
        /\ key[i] = "attention" /\ key[i+1] \in ToSegments

\* '.alpha' in key
HasAlpha(key) == \E i \in 2..Len(key) : key[i] = "alpha"

\* any(x in key for x in ('.to_q.', '.to_k.', '.to_v.'))
HasQkvMarker(key) == \E i \in 2..(Len(key) - 1) : key[i] \in QkvSegments

\* 'lora_A' in key
HasLoraA(key) == \E i \in 1..Len(key) : key[i] = "lora_A"

(***************************************************************************)
(* Key rewriting and parsing, lines 50-70.                                 *)
(***************************************************************************)
\* key.replace('.to_out.0.', '.out.'): matches are taken left to right and do
\* not overlap, so the '.' that ends one match cannot begin the next; dot says
\* whether the '.' before segment i is still free
RECURSIVE ReplaceFrom(_, _, _)
ReplaceFrom(key, i, dot) ==
    IF i > Len(key) THEN <<>>
    ELSE IF dot /\ i + 2 <= Len(key) /\ key[i] = "to_out" /\ key[i+1] = "0"
         THEN <<"out">> \o ReplaceFrom(key, i + 2, FALSE)
         ELSE <<key[i]>> \o ReplaceFrom(key, i + 1, TRUE)

ReplaceOut_identity(key) == key

ReplaceOut(key) == ReplaceFrom(key, 1, FALSE)

\* f"{key.rsplit('.lora_A', 1)[0]}.alpha"
SiblingAlphaKey(key) ==
    LET at == {i \in 2..Len(key) : key[i] = "lora_A"}
        base == IF at = {} THEN key
                ELSE SubSeq(key, 1, (CHOOSE i \in at : \A j \in at : j <= i) - 1)
    IN  base \o <<"alpha">>

First(key, S) ==
    LET at == {i \in 1..Len(key) : key[i] \in S}
    IN  IF at = {} THEN "None" ELSE key[CHOOSE i \in at : \A j \in at : i <= j]

\* next((p[3:] for p in parts if p in ('to_q', 'to_k', 'to_v')), None)
AttnType(key) ==
    LET p == First(key, QkvSegments)
    IN  IF p = "to_q" THEN "q" ELSE IF p = "to_k" THEN "k"
        ELSE IF p = "to_v" THEN "v" ELSE "None"

\* next((p for p in parts if p in ('lora_A', 'lora_B')), None)
LoraType(key) == First(key, LoraSegments)

\* '.'.join([p for p in parts if p not in ('to_q', 'to_k', 'to_v')][:-2])
BaseKey(key) ==
    LET base_parts == SelectSeq(key, LAMBDA p : p \notin QkvSegments)
    IN  SubSeq(base_parts, 1, Len(base_parts) - 2)

\* the if-chain of the parsing loop with the lora_type test of line 68 left out
Kind_no_lora_test(key) ==
    IF HasAttentionOut(key) THEN "rename"
    ELSE IF HasAttentionTo(key) /\ HasAlpha(key) THEN "skip_alpha"
    ELSE IF HasAttentionTo(key) /\ HasQkvMarker(key) /\ AttnType(key) # "None"
         THEN "merge"
    ELSE "pass"

\* the if-chain with merge candidates falling through to line 74
Kind_candidates_pass(key) ==
    IF HasAttentionOut(key) THEN "rename"
    ELSE IF HasAttentionTo(key) /\ HasAlpha(key) THEN "skip_alpha"
    ELSE "pass"

\* the if-chain of the parsing loop, lines 49, 60, 63 and 68
Kind(key) ==
    IF HasAttentionOut(key) THEN "rename"
    ELSE IF HasAttentionTo(key) /\ HasAlpha(key) THEN "skip_alpha"
    ELSE IF /\ HasAttentionTo(key) /\ HasQkvMarker(key)
            /\ AttnType(key) # "None" /\ LoraType(key) # "None"
         THEN "merge"
    ELSE "pass"

\* layer_groups[base_key][attn_type][lora_type] = value
AddSlot(lg, base, attn, lora, value) ==
    LET old == IF HasKey(lg, base) THEN Get(lg, base) ELSE <<>>
        oldAxis == IF attn \in DOMAIN old THEN old[attn] ELSE <<>>
        newAxis == [f \in (DOMAIN oldAxis) \cup {lora} |->
                       IF f = lora THEN value ELSE oldAxis[f]]
        new == [a \in (DOMAIN old) \cup {attn} |->
                       IF a = attn THEN newAxis ELSE old[a]]
    IN  IF HasKey(lg, base)
        THEN [i \in 1..Len(lg) |->
                 IF lg[i].key = base THEN [key |-> base, value |-> new] ELSE lg[i]]
        ELSE Append(lg, [key |-> base, value |-> new])

(***************************************************************************)
(* Tensors: the torch operations of lines 82-93.                           *)
(***************************************************************************)
Numel(t) == Len(t.data)

\* bool(t), defined for a tensor of one element
Truthy(t) == t.data[1] # 0

\* the element at row i, column j of t broadcast to a two-dimensional block
BroadcastAt(t, i, j) ==
    IF Len(t.shape) = 0 THEN t.data[1]
    ELSE IF Len(t.shape) = 1
         THEN t.data[IF t.shape[1] = 1 THEN 1 ELSE j]
    ELSE t.data[((IF t.shape[1] = 1 THEN 1 ELSE i) - 1) * t.shape[2]
                + (IF t.shape[2] = 1 THEN 1 ELSE j)]

\* whether qkv_B[...] = t can copy t into a block of h rows and r columns
Broadcastable(t, h, r) ==
    \/ Len(t.shape) = 0
    \/ Len(t.shape) = 1 /\ t.shape[1] \in {1, r}
    \/ Len(t.shape) = 2 /\ t.shape[1] \in {1, h} /\ t.shape[2] \in {1, r}

\* lines 83-84 with the k and v blocks exchanged
BlockDiag_swapped(qB, kB, vB) ==
    LET h == qB.shape[1]
        r == qB.shape[2]
    IN  [id |-> 0, shape |-> <<3 * h, 3 * r>>,
         data |-> [p \in 1..(9 * h * r) |->
            LET i == ((p - 1) \div (3 * r)) + 1
                j == ((p - 1) % (3 * r)) + 1
            IN  IF i <= h /\ j <= r THEN BroadcastAt(qB, i, j)
                ELSE IF i > h /\ i <= 2 * h /\ j > r /\ j <= 2 * r
                     THEN BroadcastAt(vB, i - h, j - r)
                ELSE IF i > 2 * h /\ j > 2 * r
                     THEN BroadcastAt(kB, i - 2 * h, j - 2 * r)
                ELSE 0]]

\* qkv_B = torch.zeros(3*h, 3*r); qkv_B[:h, :r], qkv_B[h:2*h, r:2*r],
\* qkv_B[2*h:, 2*r:] = qB, kB, vB
BlockDiag(qB, kB, vB) ==
    LET h == qB.shape[1]
        r == qB.shape[2]
    IN  [id |-> 0, shape |-> <<3 * h, 3 * r>>,
         data |-> [p \in 1..(9 * h * r) |->
            LET i == ((p - 1) \div (3 * r)) + 1
                j == ((p - 1) % (3 * r)) + 1
            IN  IF i <= h /\ j <= r THEN BroadcastAt(qB, i, j)
                ELSE IF i > h /\ i <= 2 * h /\ j > r /\ j <= 2 * r
                     THEN BroadcastAt(kB, i - h, j - r)
                ELSE IF i > 2 * h /\ j > 2 * r
                     THEN BroadcastAt(vB, i - 2 * h, j - 2 * r)
                ELSE 0]]

\* whether torch.cat([qA, kA, vA], dim=0) accepts its arguments
CatOK(qA, kA, vA) ==
    /\ Len(qA.shape) >= 1
    /\ Len(kA.shape) = Len(qA.shape) /\ Len(vA.shape) = Len(qA.shape)
    /\ \A d \in 2..Len(qA.shape) :
           kA.shape[d] = qA.shape[d] /\ vA.shape[d] = qA.shape[d]

\* torch.cat([qA, kA, vA], dim=0)
CatRows(qA, kA, vA) ==
    [id |-> 0,
     shape |-> [d \in 1..Len(qA.shape) |->
                   IF d = 1 THEN qA.shape[1] + kA.shape[1] + vA.shape[1]
                   ELSE qA.shape[d]],
     data |-> qA.data \o kA.data \o vA.data]

\* alpha_q * 3.0
Times3(t) ==
    [id |-> 0, shape |-> t.shape, data |-> [p \in 1..Len(t.data) |-> 3 * t.data[p]]]

(***************************************************************************)
(* The try block of the merge loop, lines 77-94.                           *)
(***************************************************************************)
Axes == {"q", "k", "v"}

\* all(x in qkv_dict for x in ('q', 'k', 'v'))
AllAxes(qkv) == Axes \subseteq DOMAIN qkv

\* whether lines 79-85 raise: a missing slot (KeyError), a qB that is not
\* two-dimensional (h, r = qB.shape), a block that cannot be copied into its
\* place, or factors torch.cat refuses.  Nothing is installed before line 87.
FusionRaises(qkv) ==
    IF \E a \in Axes : \E f \in LoraSegments : f \notin DOMAIN qkv[a] THEN TRUE
    ELSE IF Len(qkv["q"]["lora_B"].shape) # 2 THEN TRUE
    ELSE \/ LET h == qkv["q"]["lora_B"].shape[1]
                r == qkv["q"]["lora_B"].shape[2]
            IN  \E a \in Axes : ~Broadcastable(qkv[a]["lora_B"], h, r)
         \/ ~CatOK(qkv["q"]["lora_A"], qkv["k"]["lora_A"], qkv["v"]["lora_A"])

FusedKey(base, name) == base \o <<"qkv">> \o name

\* lines 83-88
InstallFused(out, base, qkv) ==
    Put(Put(out, FusedKey(base, <<"lora_B", "weight">>),
            BlockDiag(qkv["q"]["lora_B"], qkv["k"]["lora_B"], qkv["v"]["lora_B"])),
        FusedKey(base, <<"lora_A", "weight">>),
        CatRows(qkv["q"]["lora_A"], qkv["k"]["lora_A"], qkv["v"]["lora_A"]))

\* whether line 91 raises: 'or' takes bool() of the first lookup, which torch
\* refuses for a tensor that does not hold exactly one element
AlphaRaises(d, base) ==
    LET first == GetOrNone(d, base \o <<"to_q", "alpha">>)
    IN  first # None /\ Numel(first) # 1

\* lora_dict.get(f"{base_key}.to_q.alpha") or
\* lora_dict.get(f"{base_key}.to_q.lora_A.alpha")
AlphaQ(d, base) ==
    LET first == GetOrNone(d, base \o <<"to_q", "alpha">>)
    IN  IF first # None /\ Truthy(first) THEN first
        ELSE GetOrNone(d, base \o <<"to_q", "lora_A", "alpha">>)

\* lines 92-93
InstallAlpha(out, d, base) ==
    IF AlphaQ(d, base) # None
    THEN Put(out, FusedKey(base, <<"alpha">>), Times3(AlphaQ(d, base)))
    ELSE out

(***************************************************************************)
(* Paths and the extension test of lines 30-35.                            *)
(***************************************************************************)
SAFETENSORS == <<".", "s", "a", "f", "e", "t", "e", "n", "s", "o", "r", "s">>
PT == <<".", "p", "t">>
PTH == <<".", "p", "t", "h">>

\* the loader line 30 or 32 chooses; "none" is the else branch of line 34
Loader_any(path) == IF EndsWith(path, SAFETENSORS) THEN "load_file" ELSE "torch.load"

Loader(path) ==
    IF EndsWith(path, SAFETENSORS) THEN "load_file"
    ELSE IF EndsWith(path, PT) \/ EndsWith(path, PTH) THEN "torch.load"
    ELSE "none"

(***************************************************************************)
(* The files load_file / torch.load may return.  A file is the plain file  *)
(* (one complete group "L.attention" whose B factors are h x r and whose A *)
(* factors are r x (h+1)) changed in at most MaxDev of the ways listed in  *)
(* Deviations.                                                             *)
(***************************************************************************)
GroupL == <<"L", "attention">>
GroupM == <<"M", "attention">>

Deviations ==
    \* one slot of group L is absent
    [t : {"slot"}, axis : Axes, factor : LoraSegments, how : {"missing"}]
    \* or has another shape: a B factor that is one-dimensional, has a row
    \* more or is a scalar, an A factor with a row or a column more
    \cup [t : {"slot"}, axis : {"q"}, factor : {"lora_B"}, how : {"vector", "tall"}]
    \cup [t : {"slot"}, axis : {"k"}, factor : {"lora_B"}, how : {"tall", "scalar"}]
    \cup [t : {"slot"}, axis : {"k"}, factor : {"lora_A"}, how : {"tall", "wide"}]
    \* L.attention.to_q.alpha holds the scalar x
    \cup [t : {"alpha"}, x : 0..MaxAlpha]
    \cup { [t |-> x] : x \in {
        "alpha_vector",   \* L.attention.to_q.alpha holds two elements
        "legacy_alpha",   \* L.attention.to_q.lora_A.alpha
        "M_complete",     \* a second group, complete
        "M_partial",      \* a second group without its v-axis B factor
        "out_A",          \* L.attention.to_out.0.lora_A.weight
        "out_alpha",      \* L.attention.to_out.0.alpha
        "bare_out",       \* L.ff.to_out.0.weight
        "gate_alpha",     \* L.attention.to_gate.alpha
        "norm",           \* L.norm.weight
        "q_plain",        \* L.attention.to_q.weight
        "q_bias",         \* L.attention.to_q.lora_A.bias, a second key of a slot
        "out_twin",       \* L.attention.out.lora_A.weight
        "qkv_twin",       \* L.attention.qkv.lora_A.weight
        "reversed"        \* the keys in the opposite order
      } }

Consistent(D) ==
    /\ \A d, e \in D :
          d.t = "slot" /\ e.t = "slot" /\ d.axis = e.axis /\ d.factor = e.factor
              => d = e
    /\ \A d, e \in D : d.t \in {"alpha", "alpha_vector"} /\ e.t \in {"alpha", "alpha_vector"}
              => d = e
    /\ \A d, e \in D : d.t \in {"M_complete", "M_partial"} /\ e.t \in {"M_complete", "M_partial"}
              => d = e

RECURSIVE Product(_)
Product(shape) == IF shape = <<>> THEN 1 ELSE Head(shape) * Product(Tail(shape))

\* a tensor of the given shape whose elements are all different and not zero
Full(shape, seed) ==
    [id |-> 0, shape |-> shape, data |-> [p \in 1..Product(shape) |-> 100 * seed + p]]

Scalar(x) == [id |-> 0, shape |-> <<>>, data |-> <<x>>]

Reshaped(rows, cols, how) ==
    IF how = "tall" THEN <<rows + 1, cols>>
    ELSE IF how = "wide" THEN <<rows, cols + 1>>
    ELSE IF how = "vector" THEN <<cols>>
    ELSE IF how = "scalar" THEN <<>>
    ELSE <<rows, cols>>

Has(D, name) == [t |-> name] \in D

SlotHow(D, axis, factor) ==
    LET ds == {d \in D : d.t = "slot" /\ d.axis = axis /\ d.factor = factor}
    IN  IF ds = {} THEN "ok" ELSE (CHOOSE d \in ds : TRUE).how

Entry(key, value) == [key |-> key, value |-> value]

AxisSeed(axis) == IF axis = "q" THEN 1 ELSE IF axis = "k" THEN 2 ELSE 3

SlotEntries(D, group, gseed, axis, h, r) ==
    LET howA == IF group = GroupL THEN SlotHow(D, axis, "lora_A") ELSE "ok"
        howB == IF group = GroupL THEN SlotHow(D, axis, "lora_B")
                ELSE IF axis = "v" /\ Has(D, "M_partial") THEN "missing" ELSE "ok"
        seed == gseed + 2 * AxisSeed(axis)
    IN  (IF howA = "missing" THEN <<>>
         ELSE <<Entry(group \o <<"to_" \o axis, "lora_A", "weight">>,
                      Full(Reshaped(r, h + 1, howA), seed))>>)
        \o
        (IF howB = "missing" THEN <<>>
         ELSE <<Entry(group \o <<"to_" \o axis, "lora_B", "weight">>,
                      Full(Reshaped(h, r, howB), seed + 1))>>)

GroupEntries(D, group, gseed, h, r) ==
    SlotEntries(D, group, gseed, "q", h, r)
    \o SlotEntries(D, group, gseed, "k", h, r)
    \o SlotEntries(D, group, gseed, "v", h, r)

Optional(D, name, key, value) == IF Has(D, name) THEN <<Entry(key, value)>> ELSE <<>>

AlphaEntries(D) ==
    LET as == {d \in D : d.t = "alpha"}
    IN  (IF as = {} THEN <<>>
         ELSE <<Entry(GroupL \o <<"to_q", "alpha">>, Scalar((CHOOSE d \in as : TRUE).x))>>)
        \o Optional(D, "alpha_vector", GroupL \o <<"to_q", "alpha">>, Full(<<2>>, 20))
        \o Optional(D, "legacy_alpha", GroupL \o <<"to_q", "lora_A", "alpha">>, Scalar(5))

ExtraEntries(D, h, r) ==
    Optional(D, "out_A", GroupL \o <<"to_out", "0", "lora_A", "weight">>, Full(<<r, h>>, 21))
    \o Optional(D, "out_alpha", GroupL \o <<"to_out", "0", "alpha">>, Scalar(9))
    \o Optional(D, "bare_out", <<"L", "ff", "to_out", "0", "weight">>, Full(<<h, h>>, 22))
    \o Optional(D, "gate_alpha", GroupL \o <<"to_gate", "alpha">>, Scalar(11))
    \o Optional(D, "norm", <<"L", "norm", "weight">>, Full(<<h>>, 23))
    \o Optional(D, "q_plain", GroupL \o <<"to_q", "weight">>, Full(<<h, h>>, 24))
    \o Optional(D, "q_bias", GroupL \o <<"to_q", "lora_A", "bias">>, Full(<<r, h + 1>>, 25))
    \o Optional(D, "out_twin", GroupL \o <<"out", "lora_A", "weight">>, Full(<<r, h>>, 26))
    \o Optional(D, "qkv_twin", GroupL \o <<"qkv", "lora_A", "weight">>, Full(<<3 * r, h + 1>>, 27))

\* the tensors of a file are distinct objects: each gets its position as id
WithIds(d) ==
    [i \in 1..Len(d) |-> Entry(d[i].key, [d[i].value EXCEPT !.id = i])]

FileContent(D, h, r) ==
    LET plain == GroupEntries(D, GroupL, 0, h, r)
                 \o AlphaEntries(D)
                 \o (IF Has(D, "M_complete") \/ Has(D, "M_partial")
                     THEN GroupEntries(D, GroupM, 10, h, r) ELSE <<>>)
                 \o ExtraEntries(D, h, r)
    IN  WithIds(IF Has(D, "reversed") THEN Reverse(plain) ELSE plain)

RECURSIVE UpTo(_)
UpTo(n) ==
    IF n = 0 THEN {{}}
    ELSE UpTo(n - 1) \cup {D \cup {d} : D \in UpTo(n - 1), d \in Deviations}

DeviationSets == {D \in UpTo(MaxDev) : Consistent(D)}

Paths ==
    { <<"m">> \o SAFETENSORS, <<"m">> \o PT,
      <<"m", ".", "b", "i", "n">>, <<"m">> \o PT \o <<".", "b", "a", "k">>,
      <<"m", "p", "t">>, <<"m", ".", "P", "T">>, <<"m">> }

(***************************************************************************)
(* convert_lora, lines 25-98, called without a progress callback as        *)
(* run_batch calls it (line 221).                                          *)
(***************************************************************************)
ConvertInit ==
    /\ pc = "start"
    /\ input_path \in Paths
    /\ lora_dict = <<>>
    /\ processed = 0
    /\ layer_groups = <<>>
    /\ gi = 0
    /\ output_dict = <<>>
    /\ converted_count = 0
    /\ loaded = "none"
    /\ saved = FALSE
    /\ result = "none"

ConvertIdle ==
    /\ pc = "idle"
    /\ input_path = <<>>
    /\ lora_dict = <<>>
    /\ processed = 0
    /\ layer_groups = <<>>
    /\ gi = 0
    /\ output_dict = <<>>
    /\ converted_count = 0
    /\ loaded = "none"
    /\ saved = FALSE
    /\ result = "none"

\* line 35: raise ValueError("Unsupported file format")
Unsupported ==
    /\ pc = "start"
    /\ Loader(input_path) = "none"
    /\ pc' = "error"
    /\ result' = "ValueError"
    /\ UNCHANGED <<input_path, lora_dict, processed, layer_groups, gi,
                   output_dict, converted_count, loaded, saved>>
    /\ UNCHANGED bvars

\* lines 31, 33 and 37-42: the load primitive returns a tensor map
Load ==
    /\ pc = "start"
    /\ Loader(input_path) # "none"
    /\ \E h \in 1..MaxDim, r \in 1..MaxDim, D \in DeviationSets :
           lora_dict' = FileContent(D, h, r)
    /\ loaded' = Loader(input_path)
    /\ pc' = "parse"
    /\ UNCHANGED <<input_path, processed, layer_groups, gi, output_dict,
                   converted_count, saved, result>>
    /\ UNCHANGED bvars

\* lines 31, 33: the load primitive raises (unreadable or corrupt file)
LoadFails ==
    /\ pc = "start"
    /\ Loader(input_path) # "none"
    /\ loaded' = Loader(input_path)
    /\ pc' = "error"
    /\ result' = "LoadError"
    /\ UNCHANGED <<input_path, lora_dict, processed, layer_groups, gi,
                   output_dict, converted_count, saved>>
    /\ UNCHANGED bvars

Current == lora_dict[processed + 1]

AtKey(kind) ==
    /\ pc = "parse"
    /\ processed < Len(lora_dict)
    /\ Kind(Current.key) = kind

\* lines 49-58
ParseRename ==
    /\ AtKey("rename")
    /\ LET key == Current.key
           renamed == Put(output_dict, ReplaceOut(key), Current.value)
           alpha_key == SiblingAlphaKey(key)
       IN  output_dict' =
               IF HasLoraA(key) /\ HasKey(lora_dict, alpha_key)
               THEN Put(renamed, ReplaceOut(alpha_key), Get(lora_dict, alpha_key))
               ELSE renamed
    /\ processed' = processed + 1
    /\ UNCHANGED <<pc, input_path, lora_dict, layer_groups, gi,
                   converted_count, loaded, saved, result>>
    /\ UNCHANGED bvars

\* lines 60-61
ParseSkipAlpha ==
    /\ AtKey("skip_alpha")
    /\ processed' = processed + 1
    /\ UNCHANGED <<pc, input_path, lora_dict, layer_groups, gi, output_dict,
                   converted_count, loaded, saved, result>>
    /\ UNCHANGED bvars

\* lines 63-72
ParseMergeCandidate ==
    /\ AtKey("merge")
    /\ layer_groups' = AddSlot(layer_groups, BaseKey(Current.key),
                               AttnType(Current.key), LoraType(Current.key),
                               Current.value)
    /\ processed' = processed + 1
    /\ UNCHANGED <<pc, input_path, lora_dict, gi, output_dict,
                   converted_count, loaded, saved, result>>
    /\ UNCHANGED bvars

\* line 74
ParsePassthrough ==
    /\ AtKey("pass")
    /\ output_dict' = Put(output_dict, Current.key, Current.value)
    /\ processed' = processed + 1
    /\ UNCHANGED <<pc, input_path, lora_dict, layer_groups, gi,
                   converted_count, loaded, saved, result>>
    /\ UNCHANGED bvars

\* the for loop of line 43 is exhausted
ParseDone ==
    /\ pc = "parse"
    /\ processed = Len(lora_dict)
    /\ pc' = "merge"
    /\ UNCHANGED <<input_path, lora_dict, processed, layer_groups, gi,
                   output_dict, converted_count, loaded, saved, result>>
    /\ UNCHANGED bvars

Group == layer_groups[gi + 1]

AtGroup ==
    /\ pc = "merge"
    /\ gi < Len(layer_groups)

\* line 77 is false: an axis of the group never appeared
MergeIncomplete ==
    /\ AtGroup
    /\ ~AllAxes(Group.value)
    /\ gi' = gi + 1
    /\ UNCHANGED <<pc, input_path, lora_dict, processed, layer_groups,
                   output_dict, converted_count, loaded, saved, result>>
    /\ UNCHANGED bvars

\* lines 79-85 raise and line 94 goes on to the next group
MergeRaises ==
    /\ AtGroup
    /\ AllAxes(Group.value)
    /\ FusionRaises(Group.value)
    /\ gi' = gi + 1
    /\ UNCHANGED <<pc, input_path, lora_dict, processed, layer_groups,
                   output_dict, converted_count, loaded, saved, result>>
    /\ UNCHANGED bvars

\* lines 79-93 run to the end
MergeFuse ==
    /\ AtGroup
    /\ AllAxes(Group.value)
    /\ ~FusionRaises(Group.value)
    /\ ~AlphaRaises(lora_dict, Group.key)
    /\ output_dict' = InstallAlpha(InstallFused(output_dict, Group.key, Group.value),
                                   lora_dict, Group.key)
    /\ converted_count' = converted_count + 1
    /\ gi' = gi + 1
    /\ UNCHANGED <<pc, input_path, lora_dict, processed, layer_groups,
                   loaded, saved, result>>
    /\ UNCHANGED bvars

\* lines 79-89 run, line 91 raises and line 94 goes on to the next group
MergeAlphaRaises ==
    /\ AtGroup
    /\ AllAxes(Group.value)
    /\ ~FusionRaises(Group.value)
    /\ AlphaRaises(lora_dict, Group.key)
    /\ output_dict' = InstallFused(output_dict, Group.key, Group.value)
    /\ converted_count' = converted_count + 1
    /\ gi' = gi + 1
    /\ UNCHANGED <<pc, input_path, lora_dict, processed, layer_groups,
                   loaded, saved, result>>
    /\ UNCHANGED bvars

\* the for loop of line 76 is exhausted
MergeDone ==
    /\ pc = "merge"
    /\ gi = Len(layer_groups)
    /\ pc' = "save"
    /\ UNCHANGED <<input_path, lora_dict, processed, layer_groups, gi,
                   output_dict, converted_count, loaded, saved, result>>
    /\ UNCHANGED bvars

\* lines 96-98: the save primitive writes output_dict, converted_count is returned
Save ==
    /\ pc = "save"
    /\ saved' = TRUE
    /\ result' = converted_count
    /\ pc' = "done"
    /\ UNCHANGED <<input_path, lora_dict, processed, layer_groups, gi,
                   output_dict, converted_count, loaded>>
    /\ UNCHANGED bvars

\* line 97: the save primitive raises (unwritable path)
SaveFails ==
    /\ pc = "save"
    /\ saved' = TRUE
    /\ result' = "SaveError"
    /\ pc' = "error"
    /\ UNCHANGED <<input_path, lora_dict, processed, layer_groups, gi,
                   output_dict, converted_count, loaded>>
    /\ UNCHANGED bvars

BatchIdle ==
    /\ bpc = "idle"
    /\ in_is_dir = FALSE
    /\ files = <<>>
    /\ fi = 0
    /\ skip_existing = FALSE
    /\ existing = {}
    /\ attempts = <<>>
    /\ blog = <<>>

Init == ConvertInit /\ BatchIdle

Next ==
    \/ Unsupported
    \/ Load
    \/ LoadFails
    \/ ParseRename
    \/ ParseSkipAlpha
    \/ ParseMergeCandidate
    \/ ParsePassthrough
    \/ ParseDone
    \/ MergeIncomplete
    \/ MergeRaises
    \/ MergeFuse
    \/ MergeAlphaRaises
    \/ MergeDone
    \/ Save
    \/ SaveFails

Spec == Init /\ [][Next]_vars

(***************************************************************************)
(* Vocabulary of the properties, stated on the loaded file and the output  *)
(* map without the operators that model the conversion.                    *)
(***************************************************************************)
Groups == {GroupL, GroupM}
Factors == {"lora_A", "lora_B"}
Returned == pc = "done"

\* key names the slot (axis, factor) of group g: "<g>.to_<axis>.<factor>.<name>"
IsSlotKey(key, g, axis, factor) ==
    /\ Len(key) = Len(g) + 3
    /\ SubSeq(key, 1, Len(g)) = g
    /\ key[Len(g) + 1] = "to_" \o axis
    /\ key[Len(g) + 2] = factor

SlotPositions(g, axis, factor) ==
    {i \in 1..Len(lora_dict) : IsSlotKey(lora_dict[i].key, g, axis, factor)}

CandidatePositions(g) ==
    UNION {SlotPositions(g, a, f) : a \in Axes, f \in Factors}

\* the group occurs in the file and lacks at least one of its six slots
Lacking(g) ==
    /\ CandidatePositions(g) # {}
    /\ \E a \in Axes, f \in Factors : SlotPositions(g, a, f) = {}

Complete(g) == \A a \in Axes, f \in Factors : SlotPositions(g, a, f) # {}

\* the tensor of a slot: of several keys of one slot the file's last one counts
SlotTensor(g, axis, factor) ==
    LET at == SlotPositions(g, axis, factor)
    IN  lora_dict[CHOOSE i \in at : \A j \in at : j <= i].value

\* all B factors have one shape (h, r) and all A factors one shape (r, n)
ShapeCompatible(g) ==
    LET qB == SlotTensor(g, "q", "lora_B")
        qA == SlotTensor(g, "q", "lora_A")
    IN  /\ Len(qB.shape) = 2 /\ Len(qA.shape) = 2
        /\ qA.shape[1] = qB.shape[2]
        /\ \A a \in Axes : /\ SlotTensor(g, a, "lora_B").shape = qB.shape
                           /\ SlotTensor(g, a, "lora_A").shape = qA.shape

Fusable(g) == Complete(g) /\ ShapeCompatible(g)

QkvKey(g, name) == g \o <<"qkv">> \o name

\* the element at row i, column j of a two-dimensional tensor
At(t, i, j) == t.data[(i - 1) * t.shape[2] + j]

\* a tensor the conversion built is stored under the key
Produced(key) == key \in DOMAIN output_dict /\ output_dict[key].id = 0

BlockDiagonalOf(g) ==
    LET qB == SlotTensor(g, "q", "lora_B")
        kB == SlotTensor(g, "k", "lora_B")
        vB == SlotTensor(g, "v", "lora_B")
        h == qB.shape[1]
        r == qB.shape[2]
        key == QkvKey(g, <<"lora_B", "weight">>)
    IN  /\ Produced(key)
        /\ output_dict[key].shape = <<3 * h, 3 * r>>
        /\ \A i \in 1..h, j \in 1..r :
              /\ At(output_dict[key], i, j) = At(qB, i, j)
              /\ At(output_dict[key], h + i, r + j) = At(kB, i, j)
              /\ At(output_dict[key], 2 * h + i, 2 * r + j) = At(vB, i, j)
        /\ \A i \in 1..(3 * h), j \in 1..(3 * r) :
              ((i - 1) \div h) # ((j - 1) \div r) => At(output_dict[key], i, j) = 0

StackedOf(g) ==
    LET qA == SlotTensor(g, "q", "lora_A")
        kA == SlotTensor(g, "k", "lora_A")
        vA == SlotTensor(g, "v", "lora_A")
        key == QkvKey(g, <<"lora_A", "weight">>)
    IN  /\ Produced(key)
        /\ output_dict[key].shape = <<3 * qA.shape[1], qA.shape[2]>>
        /\ output_dict[key].data = qA.data \o kA.data \o vA.data

\* C1: when convert_lora returns, every complete group of the file whose B
\* factors all have shape (h, r) and whose A factors all have shape
\* (r, in_features) has in the output a fused B of shape (3h, 3r) whose
\* diagonal blocks are the B of q, k and v and whose other entries are zero,
\* and a fused A of shape (3r, in_features) that stacks the A of q, k and v.
C1_FusedFactors ==
    Returned => \A g \in Groups : Fusable(g) => BlockDiagonalOf(g) /\ StackedOf(g)

\* a file with a fusable group whose blocks are not square has been converted
C1_Witness ==
    /\ Returned
    /\ Fusable(GroupL)
    /\ SlotTensor(GroupL, "q", "lora_B").shape = <<2, 1>>

\* the scalar stored under "<g>.to_q.alpha"
ScalarAlphaAt(g) ==
    LET key == g \o <<"to_q", "alpha">>
    IN  HasKey(lora_dict, key) /\ Get(lora_dict, key).shape = <<>>

\* C2: when convert_lora returns, every fused group whose file holds
\* "<g>.to_q.alpha" = x, zero included, has "<g>.qkv.alpha" = 3x in the output.
C2_AlphaTripled ==
    Returned => \A g \in Groups :
        Fusable(g) /\ ScalarAlphaAt(g) =>
            /\ Produced(QkvKey(g, <<"alpha">>))
            /\ output_dict[QkvKey(g, <<"alpha">>)].data =
                   <<3 * Get(lora_dict, g \o <<"to_q", "alpha">>).data[1]>>

\* C3: when convert_lora returns, a group that lacks one of its six slots has
\* no fused A, B or alpha built for it in the output, and none of its
\* merge-candidate tensors is in the output under any key.
C3_IncompleteGroupDropped ==
    Returned => \A g \in Groups :
        Lacking(g) =>
            /\ \A name \in {<<"lora_A", "weight">>, <<"lora_B", "weight">>, <<"alpha">>} :
                  ~Produced(QkvKey(g, name))
            /\ \A k \in DOMAIN output_dict :
                  output_dict[k].id \notin CandidatePositions(g)

\* a file whose group has all three axes but not all six slots has been converted
C3_Witness ==
    /\ Returned
    /\ Lacking(GroupL)
    /\ \A a \in Axes : \E f \in Factors : SlotPositions(GroupL, a, f) # {}

HasSegment(key, S) == \E i \in 1..Len(key) : key[i] \in S

\* the key contains "to_out.0"
HasOutMarker(key) == \E i \in 1..(Len(key) - 1) : key[i] = "to_out" /\ key[i+1] = "0"

\* the output holds the key with the tensor at position i of the file
Kept(key, i) == key \in DOMAIN output_dict /\ output_dict[key].id = i

\* C4: when convert_lora returns, every key of the file that contains none of
\* to_q, to_k, to_v and not to_out.0 is in the output with its own tensor.
C4_Passthrough ==
    Returned => \A i \in 1..Len(lora_dict) :
        LET key == lora_dict[i].key
        IN  ~HasSegment(key, {"to_q", "to_k", "to_v"}) /\ ~HasOutMarker(key)
                => Kept(key, i)

\* the key with every "to_out.0" replaced by "out"
RECURSIVE OutForm(_)
OutForm(key) ==
    IF key = <<>> THEN <<>>
    ELSE IF Len(key) >= 2 /\ key[1] = "to_out" /\ key[2] = "0"
         THEN <<"out">> \o OutForm(SubSeq(key, 3, Len(key)))
         ELSE <<Head(key)>> \o OutForm(Tail(key))

\* the key contains ".attention.to_out.0."
HasAttentionOutMarker(key) ==
    \E i \in 2..(Len(key) - 3) :
        key[i] = "attention" /\ key[i+1] = "to_out" /\ key[i+2] = "0"

\* another key of the file is the given key
Twin(key, i) == \E j \in 1..Len(lora_dict) : j # i /\ lora_dict[j].key = key

\* C5 as stated: when convert_lora returns, every key of the file that
\* contains "to_out.0", under ".attention." or not, is in the output with
\* "to_out.0" replaced by "out" and with its own tensor, and the original key
\* is not in the output.
C5_EveryOutKeyRenamed ==
    Returned => \A i \in 1..Len(lora_dict) :
        LET key == lora_dict[i].key
        IN  HasOutMarker(key) =>
                Kept(OutForm(key), i) /\ key \notin DOMAIN output_dict

\* C5 as amended: when convert_lora returns, every key of the file that
\* contains ".attention.to_out.0." is in the output with "to_out.0" replaced
\* by "out" and the original key is not; the renamed key holds the key's own
\* tensor unless the file also holds the renamed key itself.  A key with
\* "to_out.0" but without ".attention.to_out.0." is in the output unchanged.
C5_AttentionOutKeyRenamed ==
    Returned => \A i \in 1..Len(lora_dict) :
        LET key == lora_dict[i].key
        IN  /\ HasAttentionOutMarker(key) =>
                  /\ OutForm(key) \in DOMAIN output_dict
                  /\ key \notin DOMAIN output_dict
                  /\ ~Twin(OutForm(key), i) => Kept(OutForm(key), i)
            /\ HasOutMarker(key) /\ ~HasAttentionOutMarker(key) => Kept(key, i)

\* a file with an attention output-projection key and one with a bare
\* "to_out.0" key has been converted
C5_Witness ==
    /\ Returned
    /\ \E i \in 1..Len(lora_dict) : HasAttentionOutMarker(lora_dict[i].key)
    /\ \E i \in 1..Len(lora_dict) :
          HasOutMarker(lora_dict[i].key) /\ ~HasAttentionOutMarker(lora_dict[i].key)

\* the alpha step of a group fails: "<g>.to_q.alpha" has no truth value
AlphaStepFails(g) ==
    LET key == g \o <<"to_q", "alpha">>
    IN  HasKey(lora_dict, key) /\ Len(Get(lora_dict, key).data) # 1

\* C6: the integer convert_lora returns is the number of groups that have all
\* six slots and compatible shapes; a group whose axes differ in rank or whose
\* alpha step fails is not counted.
C6_CountOfFusedGroups ==
    Returned =>
        result = Cardinality({g \in Groups : Fusable(g) /\ ~AlphaStepFails(g)})

\* the path ends in none of ".safetensors", ".pt", ".pth"
UnsupportedPath(path) ==
    \A ext \in {SAFETENSORS, PT, PTH} :
        \/ Len(path) < Len(ext)
        \/ \E i \in 1..Len(ext) : path[Len(path) - Len(ext) + i] # ext[i]

\* C7: for a path whose extension is not recognised, convert_lora raises the
\* unsupported-format error as its only step, and neither the load nor the
\* save primitive is ever called.
C7_UnsupportedExtension ==
    UnsupportedPath(input_path) =>
        /\ loaded = "none" /\ saved = FALSE
        /\ pc \in {"start", "error"}
        /\ pc = "start" => ENABLED Unsupported
        /\ pc = "error" => result = "ValueError"

\* the call for a path with an unrecognised extension has raised
C7_Witness ==
    /\ pc = "error" /\ result = "ValueError"
    /\ input_path = <<"m">> \o PT \o <<".", "b", "a", "k">>

\* the group at position i of layer_groups failed: a step of lines 79-93 raised
FusionFailed(i) ==
    /\ AllAxes(layer_groups[i].value)
    /\ \/ FusionRaises(layer_groups[i].value)
       \/ AlphaRaises(lora_dict, layer_groups[i].key)

\* C9: when convert_lora returns, a group one of whose fusion steps failed
\* has no fused A, B or alpha in the output and is not counted, and the other
\* groups are fused all the same.
C9_FailedGroupLeavesNothing ==
    Returned =>
        /\ \A i \in 1..Len(layer_groups) :
              FusionFailed(i) =>
                  \A name \in {<<"lora_A", "weight">>, <<"lora_B", "weight">>, <<"alpha">>} :
                      ~Produced(QkvKey(layer_groups[i].key, name))
        /\ result = Cardinality({i \in 1..Len(layer_groups) :
                        AllAxes(layer_groups[i].value) /\ ~FusionFailed(i)})

\* the key has a q/k/v projection segment right under "attention", no segment
\* lora_A or lora_B, and is no alpha key
MalformedProjectionKey(key) ==
    /\ \E i \in 2..(Len(key) - 2) :
          key[i] = "attention" /\ key[i+1] \in {"to_q", "to_k", "to_v"}
    /\ ~HasSegment(key, {"lora_A", "lora_B", "alpha"})

\* some slot of some merge group holds the tensor at position i of the file
Grouped(i) ==
    \E n \in 1..Len(layer_groups) :
        \E a \in DOMAIN layer_groups[n].value :
            \E f \in DOMAIN layer_groups[n].value[a] :
                layer_groups[n].value[a][f].id = i

\* C10: once parsing is over, and so when convert_lora returns, every key of
\* the file with a q/k/v projection marker under ".attention." but no lora_A
\* or lora_B segment (and no alpha) is in the output unchanged with its own
\* tensor and in no merge group; parsing it raises nothing.
C10_MalformedKeyPassesThrough ==
    /\ pc \in {"merge", "save", "done"} =>
          \A i \in 1..Len(lora_dict) :
              MalformedProjectionKey(lora_dict[i].key) =>
                  Kept(lora_dict[i].key, i) /\ ~Grouped(i)
    /\ pc = "error" => result \in {"ValueError", "LoadError", "SaveError"}

\* a file with such a key has been converted
C10_Witness ==
    /\ Returned
    /\ \E i \in 1..Len(lora_dict) : MalformedProjectionKey(lora_dict[i].key)

(***************************************************************************)
(* LoRAConverterGUI.run_batch, lines 193-231: the task of the worker       *)
(* thread.  A file name is the sequence of its characters.  The call of    *)
(* convert_lora at line 221 is taken by its outcome: it returns, having    *)
(* written the output file, or it raises.                                  *)
(***************************************************************************)
ZIMAGE == <<"_", "z", "i", "m", "a", "g", "e">>

\* sub in s
Contains(s, sub) ==
    \E i \in 0..(Len(s) - Len(sub)) : SubSeq(s, i + 1, i + Len(sub)) = sub

\* f.endswith(('.safetensors', '.pt')) and "_zimage" not in f
IsCandidate(f) ==
    /\ EndsWith(f, SAFETENSORS) \/ EndsWith(f, PT)
    /\ ~Contains(f, ZIMAGE)

\* os.path.splitext(filename)[0]
Stem(f) ==
    LET dots == {i \in 2..Len(f) : f[i] = "."}
    IN  IF dots = {} THEN f
        ELSE SubSeq(f, 1, (CHOOSE i \in dots : \A j \in dots : j <= i) - 1)

\* the file name of out_p, f"{name}_zimage.safetensors"
OutName(f) == Stem(f) \o ZIMAGE \o SAFETENSORS

FileNames ==
    { <<"a">> \o SAFETENSORS, <<"a">> \o PT, <<"b">> \o PT, <<"a">> \o PTH,
      <<"a">> \o ZIMAGE \o SAFETENSORS, <<"c", ".", "t", "x", "t">> }

\* what os.listdir may return: distinct names in any order
RECURSIVE ListingsOf(_)
ListingsOf(n) ==
    IF n = 0 THEN {<<>>}
    ELSE ListingsOf(n - 1)
         \cup {Append(l, f) : l \in {m \in ListingsOf(n - 1) : Len(m) = n - 1},
                              f \in FileNames}

Listings ==
    {l \in ListingsOf(MaxFiles) : \A i, j \in 1..Len(l) : i # j => l[i] # l[j]}

Line(msg, f) == [msg |-> msg, file |-> f]

\* where the task goes on after the except clause of lines 223-224 when the
\* exception leaves the loop instead
AfterFailure_abort == "aborted"

\* where the task goes on after the except clause of lines 223-224
AfterFailure == "loop"

BatchInit ==
    /\ bpc = "start"
    /\ in_is_dir \in BOOLEAN
    /\ files = <<>>
    /\ fi = 0
    /\ skip_existing \in BOOLEAN
    /\ existing \in SUBSET {OutName(f) : f \in {g \in FileNames : IsCandidate(g)}}
    /\ attempts = <<>>
    /\ blog = <<>>

\* lines 198-200
BatchNoDir ==
    /\ bpc = "start"
    /\ ~in_is_dir
    /\ bpc' = "done"
    /\ UNCHANGED <<in_is_dir, files, fi, skip_existing, existing, attempts, blog>>
    /\ UNCHANGED cvars

\* lines 202-205: no candidate file
BatchListEmpty ==
    /\ bpc = "start"
    /\ in_is_dir
    /\ \E l \in Listings :
          /\ SelectSeq(l, IsCandidate) = <<>>
          /\ files' = <<>>
    /\ blog' = Append(blog, Line("No valid LoRA files found in source folder.", <<>>))
    /\ bpc' = "done"
    /\ UNCHANGED <<in_is_dir, fi, skip_existing, existing, attempts>>
    /\ UNCHANGED cvars

\* lines 202-207
BatchListFound ==
    /\ bpc = "start"
    /\ in_is_dir
    /\ \E l \in Listings :
          /\ SelectSeq(l, IsCandidate) # <<>>
          /\ files' = SelectSeq(l, IsCandidate)
    /\ blog' = Append(blog, Line("Found files. Starting batch processing...", <<>>))
    /\ bpc' = "loop"
    /\ UNCHANGED <<in_is_dir, fi, skip_existing, existing, attempts>>
    /\ UNCHANGED cvars

File == files[fi + 1]

InLoop ==
    /\ bpc = "loop"
    /\ fi < Len(files)

\* self.skip_existing.get() and os.path.exists(out_p)
SkipsFile == skip_existing /\ OutName(File) \in existing

\* lines 216-218
BatchSkip ==
    /\ InLoop
    /\ SkipsFile
    /\ blog' = Append(blog, Line("Skipping (Already exists)", File))
    /\ fi' = fi + 1
    /\ UNCHANGED <<bpc, in_is_dir, files, skip_existing, existing, attempts>>
    /\ UNCHANGED cvars

\* lines 220-222 and 226: convert_lora returns
BatchConvert ==
    /\ InLoop
    /\ ~SkipsFile
    /\ attempts' = Append(attempts, [file |-> File, ok |-> TRUE])
    /\ existing' = existing \cup {OutName(File)}
    /\ blog' = Append(blog, Line("Converted", File))
    /\ fi' = fi + 1
    /\ UNCHANGED <<bpc, in_is_dir, files, skip_existing>>
    /\ UNCHANGED cvars

\* lines 220-221, 223-224 and 226: convert_lora raises, before or while
\* the output file is written
BatchConvertFails ==
    /\ InLoop
    /\ ~SkipsFile
    /\ attempts' = Append(attempts, [file |-> File, ok |-> FALSE])
    /\ existing' \in {existing, existing \cup {OutName(File)}}
    /\ blog' = Append(blog, Line("Failed", File))
    /\ fi' = fi + 1
    /\ bpc' = AfterFailure
    /\ UNCHANGED <<in_is_dir, files, skip_existing>>
    /\ UNCHANGED cvars

\* lines 228-229
BatchComplete ==
    /\ bpc = "loop"
    /\ fi = Len(files)
    /\ blog' = Append(blog, Line("Batch processing complete.", <<>>))
    /\ bpc' = "done"
    /\ UNCHANGED <<in_is_dir, files, fi, skip_existing, existing, attempts>>
    /\ UNCHANGED cvars

BatchNext ==
    \/ BatchNoDir
    \/ BatchListEmpty
    \/ BatchListFound
    \/ BatchSkip
    \/ BatchConvert
    \/ BatchConvertFails
    \/ BatchComplete

\* the worker thread runs its task to the end (line 231)
BatchStart == ConvertIdle /\ BatchInit

BatchSpec == BatchStart /\ [][BatchNext]_vars /\ WF_vars(BatchNext)

\* the files the log reports as skipped
SkippedFiles == {blog[n].file : n \in {m \in 1..Len(blog) : blog[m].msg = "Skipping (Already exists)"}}

Logged(msg, f) == \E n \in 1..Len(blog) : blog[n] = Line(msg, f)

\* the files convert_lora was called for, in the order of the calls
AttemptedFiles == [n \in 1..Len(attempts) |-> attempts[n].file]

\* the files of the first n list entries that were not skipped, in list order
NotSkipped(n) == SelectSeq(SubSeq(files, 1, n), LAMBDA f : f \notin SkippedFiles)

\* the calls so far are one call for each file met and not skipped, in list
\* order, and every failed call is in the log
OneAttemptEach ==
    /\ AttemptedFiles = NotSkipped(fi)
    /\ \A n \in 1..Len(attempts) : ~attempts[n].ok => Logged("Failed", attempts[n].file)

\* every file of the list was skipped or attempted and the last line of the
\* log is "Batch processing complete."
BatchCompleted ==
    /\ bpc = "done"
    /\ AttemptedFiles = NotSkipped(Len(files))
    /\ blog # <<>> /\ blog[Len(blog)] = Line("Batch processing complete.", <<>>)

\* C8 as stated, in the form a finite run refutes: for every list of
\* candidate files, the empty one included, each file not skipped is attempted
\* once in list order with its failure logged, and a task that has listed the
\* folder ends with every file attempted or skipped and "Batch processing
\* complete." logged.
C8_EveryBatchCompletes ==
    /\ OneAttemptEach
    /\ bpc = "done" /\ in_is_dir => BatchCompleted

\* C8 as amended: for every list of candidate files that is not empty, each
\* file not skipped is attempted once in list order, a failed call is logged
\* and the later files are attempted all the same, and the task reaches
\* "Batch processing complete."
C8_BatchSurvivesFailures ==
    /\ []OneAttemptEach
    /\ [](bpc = "done" /\ files # <<>> => BatchCompleted)
    /\ (bpc = "loop") ~> BatchCompleted

\* a batch whose first call failed and whose later call returned is complete
C8_Witness ==
    /\ BatchCompleted
    /\ Len(attempts) >= 2
    /\ ~attempts[1].ok
    /\ attempts[Len(attempts)].ok

====
